---- MODULE Spec2Model ----
(***************************************************************************)
(* Fleet Vehicle Onboarding Checklist: the client-side checklist state     *)
(* (src/app.js, lines 1-646): the global header and task list, their       *)
(* write-through copy in localStorage, the handlers that mutate them       *)
(* (updateTask, updateHeader, the custom-input listener, loadFromFile ->   *)
(* applyState, resetChecklist, page load) and the email request that       *)
(* updateTask awaits.  SpecHeader exercises the header fields and the     *)
(* email recipients; SpecB is the variant of lines 647-1384, which resets  *)
(* in place, keeps its copy in sessionStorage and loads from GitHub.       *)
(*                                                                         *)
(* JavaScript values are modelled as strings: Undef stands for `undefined` *)
(* (an absent property), "" for the empty string.  A date is the string    *)
(* new Date().toISOString().split('T')[0] produces on that day.            *)
(***************************************************************************)
EXTENDS Naturals, Integers, Sequences, FiniteSets, TLC

VARIABLES
    header,     \* the global `header` object (key -> value, Undef = absent key)
    tasks,      \* the global `tasks` array
    storage,    \* localStorage item 'checklistProgress'
    progress,   \* what updateProgress last wrote to the progress display
    inflight,   \* number of /api/send-email requests awaiting their response
    today,      \* index of the current day in DayStr
    reloading,  \* fetches of checklist-data.json started by an in-place
                \* resetChecklist and not yet answered
    downloads,  \* the files loadFromGitHub is fetching
    saveBtnDisabled, \* the disabled attribute of the save button
    saves,      \* the /api/github/save requests awaiting their response
    repo,       \* the files of the GitHub repository
    server,     \* the local server: the files of progress_files, the calls
                \* of the email provider, the last request and its response
    last        \* the most recent handler: its inputs, the values it read, its
                \* outcome and the kind of message it handed to showStatus

\* what lives outside the checklist page state
backend == <<saveBtnDisabled, saves, repo, server>>

vars == <<header, tasks, storage, progress, inflight, today, reloading, downloads,
          saveBtnDisabled, saves, repo, server, last>>

----------------------------------------------------------------------------
(* Bounds *)

MaxDay == 2          \* days the clock runs through
MaxInFlight == 1     \* email requests that may be outstanding at once
MaxSegments == 3     \* "/"-separated segments of a posted filename

----------------------------------------------------------------------------
(* JavaScript values *)

Undef == "undefined"

\* JS truthiness of a string-or-undefined value
Truthy(v) == v \notin {Undef, ""}

\* JS  a || b
OrElse(a, b) == IF Truthy(a) THEN a ELSE b

DayStr == <<"2024-01-01", "2024-01-02", "2024-01-03", "2024-01-04">>

\* new Date().toISOString().split('T')[0]
Today == DayStr[today]

\* String.prototype.toUpperCase on the registrations a user types
ToUpperCase(s) == CASE s = "ab1" -> "AB1" [] OTHER -> s

----------------------------------------------------------------------------
(* The template: checklist-data.json as loadTasks reads it *)

DefaultStatuses == <<"Pending", "Actioned", "Skipped">>

\* a recipient pattern is the sequence of the pieces it is the concatenation
\* of, a placeholder being a piece of its own; the empty string is <<>>;
\* emailRecipients is <<>> for a task that has none
Template ==
    << [taskId |-> "1", phase |-> "Setup", requiresEmail |-> TRUE,
        emailRecipients |-> << <<"{{driverEmail}}">>, <<"{{sellerEmail}}">> >>,
        hasAvailableStatuses |-> FALSE, availableStatuses |-> <<>>,
        customInput |-> FALSE],
       [taskId |-> "2", phase |-> "Handover", requiresEmail |-> FALSE,
        emailRecipients |-> <<>>,
        hasAvailableStatuses |-> TRUE, availableStatuses |-> <<"Pending", "Actioned">>,
        customInput |-> TRUE] >>

TemplateIds == {Template[i].taskId : i \in DOMAIN Template}

\* an id an older template had and the current one has not
RemovedId == "9"

CustomOptions == {"Yes"}

\* task.availableStatuses || ['Pending', 'Actioned', 'Skipped']
AvailableStatuses(i) ==
    LET s == IF Template[i].hasAvailableStatuses
             THEN Template[i].availableStatuses ELSE DefaultStatuses
    IN  {s[k] : k \in DOMAIN s}

\* the task array right after loadTasks succeeded
FreshTasks ==
    [i \in DOMAIN Template |->
        [taskId |-> Template[i].taskId, status |-> "Pending",
         dateActioned |-> "", customValue |-> Undef]]

----------------------------------------------------------------------------
(* The header *)

RecognizedKeys ==
    {"registration", "makeModel", "sellerEmail", "driverName", "driverEmail",
     "driverStartDate", "location", "taxStatus"}

\* a key imported files may carry that the application does not know
HeaderKeys == RecognizedKeys \cup {"notes"}

DefaultHeader ==
    [k \in HeaderKeys |->
        CASE k = "location"  -> "Office"
          [] k = "taxStatus" -> "None Personal Use"
          [] k = "notes"     -> Undef
          [] OTHER           -> ""]

\* the literal applyState spreads under data.header
MergeDefaults ==
    [k \in {"location", "taxStatus", "driverStartDate", "sellerEmail"} |->
        CASE k = "location"  -> "Office"
          [] k = "taxStatus" -> "None Personal Use"
          [] OTHER           -> ""]

\* Object.assign(header, { ...defaults, ...data.header })
MergeHeader(h, bh) ==
    [k \in HeaderKeys |->
        IF bh[k] # Undef THEN bh[k]
        ELSE IF k \in DOMAIN MergeDefaults THEN MergeDefaults[k]
        ELSE h[k]]

----------------------------------------------------------------------------
(* Progress *)

\* completed counted as the tasks that are Actioned
Count_actionedOnly(ts, S) ==
    Cardinality({i \in DOMAIN ts : i \in S /\ ts[i].status = "Actioned"})

\* tasks.filter(t => t.status !== 'Pending').length, over the tasks in S
Count(ts, S) == Cardinality({i \in DOMAIN ts : i \in S /\ ts[i].status # "Pending"})

PhaseOf(i) == Template[i].phase

\* groupTasksByPhase: the phases of the tasks, each with the indices of its tasks
PhaseGroups(ts) ==
    [p \in {PhaseOf(i) : i \in DOMAIN ts} |-> {i \in DOMAIN ts : PhaseOf(i) = p}]

\* (total > 0 ? (completed / total) * 100 : 0).toFixed(1), in tenths of a
\* percent: toFixed rounds to the nearest tenth, a tie upwards
Percent(completed, total) ==
    IF total > 0 THEN (2000 * completed + total) \div (2 * total) ELSE 0

\* updateProgress: completed, total and percent overall and per phase
ComputeProgress(ts) ==
    [completed |-> Count(ts, DOMAIN ts),
     total     |-> Len(ts),
     percent   |-> Percent(Count(ts, DOMAIN ts), Len(ts)),
     phases    |-> [p \in DOMAIN PhaseGroups(ts) |->
                      LET n == Cardinality(PhaseGroups(ts)[p])
                          c == Count(ts, PhaseGroups(ts)[p])
                      IN  [completed |-> c, total |-> n, percent |-> Percent(c, n)]]]

----------------------------------------------------------------------------
(* Persistence *)

NoSnapshot == [present |-> FALSE, header |-> DefaultHeader, tasks |-> <<>>]

\* saveToLocalStorage: JSON.stringify({header, tasks})
Snapshot(h, ts) == [present |-> TRUE, header |-> h, tasks |-> ts]

----------------------------------------------------------------------------
(* Imported blobs: what JSON.parse hands to applyState *)

NoHeader == [k \in HeaderKeys |-> Undef]

\* header objects of imported files; a key mapped to Undef is absent
FullHeader == [NoHeader EXCEPT !["registration"] = "AB1"]

\* a header without a registration, one with an empty registration, one with
\* a registration
BlobHeaders ==
    { NoHeader,
      [NoHeader EXCEPT !["registration"] = ""],
      FullHeader }

NullEntry ==
    [json |-> "null", taskId |-> Undef, status |-> Undef,
     dateActioned |-> Undef, customValue |-> Undef]

\* the date in saved files: they were written on the first day
SavedDate == DayStr[1]

\* a task entry as saveToFile writes it for an actioned task; only a task
\* with a custom input has a customValue
FullEntry(id) ==
    [json |-> "object", taskId |-> id, status |-> "Actioned",
     dateActioned |-> SavedDate,
     customValue |-> IF \E i \in DOMAIN Template :
                           Template[i].taskId = id /\ Template[i].customInput
                     THEN "Yes" ELSE Undef]

\* a task entry that carries a taskId and nothing else
BareEntry(id) ==
    [json |-> "object", taskId |-> id, status |-> Undef,
     dateActioned |-> Undef, customValue |-> Undef]

\* a task entry of a skipped task without a date
SkippedEntry(id) ==
    [json |-> "object", taskId |-> id, status |-> "Skipped",
     dateActioned |-> Undef, customValue |-> Undef]

Opt(S) == {<<>>} \cup {<<e>> : e \in S}

\* the task arrays of imported files: in template order with any of the ids
\* missing, with the id of a removed task, out of order, with an id twice,
\* and with a JSON null among the entries
BlobTaskArrays ==
    { a \o b : a \in Opt({FullEntry("1"), BareEntry("1")}),
               b \in Opt({FullEntry("2")}) }
    \cup { <<BareEntry("2")>>, <<SkippedEntry("2")>>,
           <<FullEntry("1"), FullEntry(RemovedId)>>,
           <<FullEntry("2"), BareEntry("1")>>,
           <<FullEntry("1"), BareEntry("1")>>,
           <<NullEntry>> }

Blobs ==
    \* JSON null
    { [isNull |-> TRUE, hasHeader |-> FALSE, header |-> NoHeader,
       tasksIsArray |-> FALSE, tasks |-> <<>>] }
    \cup
    \* an object without a header, or whose tasks is not an array
    { [isNull |-> FALSE, hasHeader |-> FALSE, header |-> NoHeader,
       tasksIsArray |-> TRUE, tasks |-> <<FullEntry("1")>>],
      [isNull |-> FALSE, hasHeader |-> TRUE, header |-> FullHeader,
       tasksIsArray |-> FALSE, tasks |-> <<>>] }
    \cup
    { [isNull |-> FALSE, hasHeader |-> TRUE, header |-> bh,
       tasksIsArray |-> TRUE, tasks |-> <<>>] : bh \in BlobHeaders }
    \cup
    { [isNull |-> FALSE, hasHeader |-> TRUE, header |-> FullHeader,
       tasksIsArray |-> TRUE, tasks |-> ts] : ts \in BlobTaskArrays }

\* JSON.parse(localStorage.getItem('checklistProgress'))
SnapshotBlob(st) ==
    [isNull |-> FALSE, hasHeader |-> TRUE, header |-> st.header,
     tasksIsArray |-> TRUE,
     tasks |-> [i \in DOMAIN st.tasks |->
                  [json |-> "object", taskId |-> st.tasks[i].taskId,
                   status |-> st.tasks[i].status,
                   dateActioned |-> st.tasks[i].dateActioned,
                   customValue |-> st.tasks[i].customValue]]]

----------------------------------------------------------------------------
(* applyState *)

\* the format check without its Array.isArray test
InvalidFormat_noArrayCheck(b) == b.isNull \/ ~b.hasHeader

\* if (!data || !data.header || !Array.isArray(data.tasks)) throw
InvalidFormat(b) == b.isNull \/ ~b.hasHeader \/ ~b.tasksIsArray

\* data.tasks.map(t => [t.taskId, t]) reads a property of null
MapThrows(b) == \E j \in DOMAIN b.tasks : b.tasks[j].json = "null"

\* new Map(...).get(id): the last entry with that taskId
HasSaved(b, id) == \E j \in DOMAIN b.tasks : b.tasks[j].taskId = id

SavedTask(b, id) ==
    LET js == {j \in DOMAIN b.tasks : b.tasks[j].taskId = id}
    IN  b.tasks[CHOOSE j \in js : \A k \in js : k <= j]

\* the merge filling in a missing date from the status the task had before
\* the merge
MergeTask_staleStatus(task, b) ==
    IF HasSaved(b, task.taskId)
    THEN LET saved == SavedTask(b, task.taskId)
         IN  [task EXCEPT !.status = OrElse(saved.status, "Pending"),
                          !.dateActioned =
                              OrElse(saved.dateActioned,
                                     IF task.status \notin {"Pending", ""}
                                     THEN SavedDate ELSE ""),
                          !.customValue = OrElse(saved.customValue, task.customValue)]
    ELSE task

\* the body of tasks.forEach in applyState
MergeTask(task, b) ==
    IF HasSaved(b, task.taskId)
    THEN LET saved == SavedTask(b, task.taskId)
         IN  [task EXCEPT !.status = OrElse(saved.status, "Pending"),
                          !.dateActioned = OrElse(saved.dateActioned, ""),
                          !.customValue = OrElse(saved.customValue, task.customValue)]
    ELSE task

\* applyState keeping only the tasks the blob has an entry for
applyState_dropUnmatched(h, ts, b) ==
    IF InvalidFormat(b)
    THEN [header |-> h, tasks |-> ts, outcome |-> "invalid"]
    ELSE IF MapThrows(b)
    THEN [header |-> MergeHeader(h, b.header), tasks |-> ts, outcome |-> "threw"]
    ELSE [header |-> MergeHeader(h, b.header),
          tasks |-> SelectSeq([i \in DOMAIN ts |-> MergeTask(ts[i], b)],
                              LAMBDA t : HasSaved(b, t.taskId)),
          outcome |-> "ok"]

\* applyState(data, sourceName) on the globals h, ts: the globals it leaves
\* and whether it ran to the end ("ok"), rejected the blob ("invalid"), or
\* threw after the header merge ("threw")
applyState(h, ts, b) ==
    IF InvalidFormat(b)
    THEN [header |-> h, tasks |-> ts, outcome |-> "invalid"]
    ELSE IF MapThrows(b)
    THEN [header |-> MergeHeader(h, b.header), tasks |-> ts, outcome |-> "threw"]
    ELSE [header |-> MergeHeader(h, b.header),
          tasks |-> [i \in DOMAIN ts |-> MergeTask(ts[i], b)],
          outcome |-> "ok"]

----------------------------------------------------------------------------
(* triggerEmailNotification: the recipients *)

\* String.prototype.replace(token, value) on a string given by its pieces:
\* the first occurrence of the token is replaced, later ones stay
ReplaceFirst(s, token, value) ==
    IF \E j \in DOMAIN s : s[j] = token
    THEN LET j == CHOOSE k \in DOMAIN s :
                     s[k] = token /\ \A n \in DOMAIN s : s[n] = token => k <= n
         IN  SubSeq(s, 1, j - 1)
                 \o (IF value = "" THEN <<>> ELSE <<value>>)
                 \o SubSeq(s, j + 1, Len(s))
    ELSE s

\* recipient.replace('{{driverEmail}}', header.driverEmail || '')
\*          .replace('{{sellerEmail}}', header.sellerEmail || '')
Resolve(recipient, h) ==
    ReplaceFirst(ReplaceFirst(recipient, "{{driverEmail}}", OrElse(h["driverEmail"], "")),
                 "{{sellerEmail}}", OrElse(h["sellerEmail"], ""))

\* Boolean(recipient): the empty string is falsy
NonEmpty(recipient) == recipient # <<>>

\* the fallback of triggerEmailNotification
DefaultRecipient == <<"d.paradinejr@gmail.com">>

\* the resolved list sent as it is, empty or not
Recipients_noFallback(emailRecipients, h) ==
    SelectSeq([j \in DOMAIN emailRecipients |-> Resolve(emailRecipients[j], h)], NonEmpty)

\* const to = recipients.length > 0 ? recipients : ['d.paradinejr@gmail.com']
Recipients(emailRecipients, h) ==
    LET recipients ==
            SelectSeq([j \in DOMAIN emailRecipients |-> Resolve(emailRecipients[j], h)],
                      NonEmpty)
    IN  IF Len(recipients) > 0 THEN recipients ELSE <<DefaultRecipient>>

----------------------------------------------------------------------------
(* updateTask *)

\* the date set on every change to a status other than Pending
SetsDate_anyPrevious(previousStatus, status) == status # "Pending"

\* if (previousStatus === 'Pending' && status !== 'Pending')
SetsDate(previousStatus, status) ==
    previousStatus = "Pending" /\ status # "Pending"

\* the email sent whenever the new status is Actioned
SendsEmail_anyPrevious(previousStatus, status, requiresEmail) ==
    status = "Actioned" /\ requiresEmail

\* if (previousStatus === 'Pending' && status === 'Actioned' && task.requiresEmail)
SendsEmail(previousStatus, status, requiresEmail) ==
    previousStatus = "Pending" /\ status = "Actioned" /\ requiresEmail

\* the task object after the assignments of updateTask
UpdatedTask(task, status, date) ==
    [task EXCEPT !.status = status,
                 !.dateActioned = IF SetsDate(task.status, status) THEN date ELSE @]

\* the value of a task's status <select> after renderForm set it to task.status:
\* a value that is none of the options selects nothing
SelectValue(i) ==
    IF tasks[i].status \in AvailableStatuses(i) THEN tasks[i].status ELSE ""

\* no blob: the handler was not an import
NoBlob ==
    [isNull |-> TRUE, hasHeader |-> FALSE, header |-> NoHeader,
     tasksIsArray |-> FALSE, tasks |-> <<>>]

\* the record of a handler that touched no task: op names the handler,
\* outcome how it ended, shown the kind of message it gave to showStatus,
\* to the recipients of the email it sent, typed the date the user typed
\* into the date input, key the header field that was edited,
\* reset how the handler stands to the in-place resetChecklist
Handler(op, outcome, shown) ==
    [op |-> op, index |-> 0, previousStatus |-> "", attempts |-> 0,
     typed |-> "", key |-> "", to |-> <<>>, blob |-> NoBlob,
     outcome |-> outcome, shown |-> shown, reset |-> "none"]

\* updateTask(index, status, dateActioned) up to the point where it returns or
\* suspends at `await triggerEmailNotification(task)`
updateTask(op, index, status, dateActioned) ==
    /\ index \in DOMAIN tasks
    /\ LET task  == tasks[index]
           email == SendsEmail(task.status, status, Template[index].requiresEmail)
       IN  /\ email => inflight < MaxInFlight
           /\ tasks' = [tasks EXCEPT ![index] = UpdatedTask(task, status, Today)]
           /\ IF email
              THEN \* triggerEmailNotification: showStatus, then fetch is awaited
                   /\ inflight' = inflight + 1
                   /\ UNCHANGED <<storage, progress>>
              ELSE /\ storage' = Snapshot(header, tasks')
                   /\ progress' = ComputeProgress(tasks')
                   /\ UNCHANGED inflight
           /\ last' = [op |-> op, index |-> index, previousStatus |-> task.status,
                       attempts |-> IF email THEN 1 ELSE 0,
                       typed |-> IF op = "dateChange" THEN dateActioned ELSE "",
                       key |-> "",
                       to |-> IF email
                              THEN Recipients(Template[index].emailRecipients, header)
                              ELSE <<>>,
                       blob |-> NoBlob,
                       outcome |-> IF email THEN "awaiting" ELSE "done",
                       shown |-> IF email THEN "sending" ELSE "none",
                       reset |-> "none"]
    /\ UNCHANGED <<header, today, reloading, downloads, backend>>

\* the 'change' listener of a task's status <select>
StatusSelectChange(index, status) ==
    /\ index \in DOMAIN tasks
    /\ status \in AvailableStatuses(index)
    /\ updateTask("statusChange", index, status, tasks[index].dateActioned)

\* the dates users type into a date input: one that no task gets by itself
TypedDates == {"2023-12-31"}

\* the 'change' listener of a task's date <input>
DateInputChange(index, date) ==
    /\ index \in DOMAIN tasks
    /\ updateTask("dateChange", index, SelectValue(index), date)

\* updateTask returning without saving when the email failed
SavedAfterEmail_onlyOnSuccess(ok, h, ts, st) == IF ok THEN Snapshot(h, ts) ELSE st

\* what the rest of updateTask leaves in localStorage once the email request
\* has settled (ok = the server answered with an OK status)
SavedAfterEmail(ok, h, ts, st) == Snapshot(h, ts)

\* the response to /api/send-email arrives (or the request fails):
\* triggerEmailNotification reports it, updateTask resumes
EmailSettled(ok) ==
    /\ inflight > 0
    /\ inflight' = inflight - 1
    /\ storage' = SavedAfterEmail(ok, header, tasks, storage)
    /\ progress' = ComputeProgress(tasks)
    /\ last' = [Handler("emailSettled", IF ok THEN "sent" ELSE "failed",
                        IF ok THEN "success" ELSE "error")
                   EXCEPT !.blob = IF last.reset = "overlap" THEN last.blob ELSE NoBlob,
                          !.reset = last.reset]
    /\ UNCHANGED <<header, tasks, today, reloading, downloads, backend>>

----------------------------------------------------------------------------
(* updateHeader and the custom-input listener *)

\* what the user types into the header inputs
HeaderEdits ==
    { <<"registration", ToUpperCase("ab1")>>, <<"registration", ToUpperCase("")>> }

\* the header replaced by a new object that holds the edited field
updateHeader_replacesHeader(key, value) ==
    /\ header' = [DefaultHeader EXCEPT ![key] = value]
    /\ storage' = Snapshot(header', tasks)
    /\ last' = [Handler("updateHeader", "done", "none") EXCEPT !.key = key]
    /\ UNCHANGED <<tasks, progress, inflight, today, reloading, downloads, backend>>

\* updateHeader(key, value): header[key] = value; saveToLocalStorage()
updateHeader(key, value) ==
    /\ header' = [header EXCEPT ![key] = value]
    /\ storage' = Snapshot(header', tasks)
    /\ last' = [Handler("updateHeader", "done", "none") EXCEPT !.key = key]
    /\ UNCHANGED <<tasks, progress, inflight, today, reloading, downloads, backend>>

CustomSelectChange(index, value) ==
    /\ index \in DOMAIN tasks
    /\ Template[index].customInput
    /\ tasks' = [tasks EXCEPT ![index].customValue = value]
    /\ storage' = Snapshot(header, tasks')
    /\ last' = [Handler("customChange", "done", "none") EXCEPT !.index = index]
    /\ UNCHANGED <<header, progress, inflight, today, reloading, downloads, backend>>

----------------------------------------------------------------------------
(* Import, page load, reset *)

\* loadFromFile: reader.onload with a file JSON.parse accepts
LoadFromFile(b) ==
    LET r == applyState(header, tasks, b)
    IN  /\ header' = r.header
        /\ tasks' = r.tasks
        /\ IF r.outcome = "ok"
           THEN /\ progress' = ComputeProgress(r.tasks)
                /\ storage' = Snapshot(r.header, r.tasks)
           ELSE UNCHANGED <<progress, storage>>
        /\ last' = [Handler("applyState", r.outcome,
                            IF r.outcome = "ok" THEN "success" ELSE "error")
                       EXCEPT !.blob = b]
        /\ UNCHANGED <<inflight, today, reloading, downloads, backend>>

\* window.onload -> initChecklist on a new page, localStorage holding st;
\* loadOk tells whether checklist-data.json could be fetched
PageInit(op, st, loadOk) ==
    LET ts0 == IF loadOk THEN FreshTasks ELSE <<>>
        r   == IF st.present THEN applyState(DefaultHeader, ts0, SnapshotBlob(st))
               ELSE [header |-> DefaultHeader, tasks |-> ts0, outcome |-> "none"]
    IN  /\ header' = r.header
        /\ tasks' = r.tasks
        /\ storage' = IF r.outcome = "ok" THEN Snapshot(r.header, r.tasks) ELSE st
        /\ progress' = ComputeProgress(r.tasks)
        /\ inflight' = 0
        /\ reloading' = 0
        /\ downloads' = {}
        /\ last' = Handler(op, IF loadOk THEN "loaded" ELSE "fetchError",
                           IF r.outcome \in {"invalid", "threw"} THEN "error" ELSE "none")
        /\ UNCHANGED <<today, backend>>

\* the user reloads the page or reopens the tab
PageLoad(loadOk) == PageInit("load", storage, loadOk)

\* resetChecklist, confirmed: removeItem, then window.location.reload()
resetChecklist(loadOk) == PageInit("reset", NoSnapshot, loadOk)

\* midnight passes
Tick ==
    /\ today < MaxDay
    /\ today' = today + 1
    /\ UNCHANGED <<header, tasks, storage, progress, inflight, reloading, downloads, last, backend>>

----------------------------------------------------------------------------
(* The header fields: what users type and what imported files carry *)

\* the header inputs: the registration is uppercased by its listener, the
\* other values are passed on as typed
HeaderInputs ==
    { <<"registration", ToUpperCase("ab1")>>, <<"registration", ToUpperCase("")>>,
      <<"driverEmail", "driver@example.com">>, <<"driverEmail", "">>,
      <<"sellerEmail", "seller@example.com">> }

\* files whose header has a lowercase registration, a key the application
\* does not know, and empty values
HeaderBlobs ==
    { [isNull |-> FALSE, hasHeader |-> TRUE, header |-> bh,
       tasksIsArray |-> TRUE, tasks |-> <<>>] :
        bh \in { [NoHeader EXCEPT !["registration"] = "ab1"],
                 [NoHeader EXCEPT !["registration"] = "AB1", !["notes"] = "checked"],
                 [NoHeader EXCEPT !["registration"] = "", !["location"] = ""] } }


----------------------------------------------------------------------------
(* The variant that resets in place and loads from GitHub                  *)
(* (src/app.js, lines 647-1384): sessionStorage in place of localStorage,  *)
(* applyLoadedData in place of applyState                                  *)

\* let header = {...}: this variant has no sellerEmail and no driverStartDate
DefaultHeaderB ==
    [k \in HeaderKeys |->
        CASE k = "location"  -> "Office"
          [] k = "taxStatus" -> "None Personal Use"
          [] k \in {"registration", "makeModel", "driverName", "driverEmail"} -> ""
          [] OTHER           -> Undef]

\* the literal applyLoadedData spreads under data.header
MergeDefaultsB ==
    [k \in {"location", "makeModel", "taxStatus"} |->
        CASE k = "location"  -> "Office"
          [] k = "taxStatus" -> "None Personal Use"
          [] OTHER           -> ""]

\* Object.assign(header, { location, makeModel, taxStatus, ...data.header })
MergeHeaderB(h, bh) ==
    [k \in HeaderKeys |->
        IF bh[k] # Undef THEN bh[k]
        ELSE IF k \in DOMAIN MergeDefaultsB THEN MergeDefaultsB[k]
        ELSE h[k]]

\* the literal resetChecklist assigns to the header
ResetDefaults ==
    [k \in {"registration", "makeModel", "driverName", "driverEmail",
            "location", "taxStatus"} |-> DefaultHeaderB[k]]

\* Object.assign(header, { registration: '', ... })
ResetHeader(h) ==
    [k \in HeaderKeys |-> IF k \in DOMAIN ResetDefaults THEN ResetDefaults[k] ELSE h[k]]

\* tasks.forEach((task, index) => ...): the entry at the task's position, if
\* there is one and it is not null, overwrites status and dateActioned
MergeTaskAt(task, i, b) ==
    IF i \in DOMAIN b.tasks /\ b.tasks[i].json = "object"
    THEN LET savedTask == b.tasks[i]
         IN  [task EXCEPT !.status = savedTask.status,
                          !.dateActioned = savedTask.dateActioned,
                          !.customValue = OrElse(savedTask.customValue, @)]
    ELSE task

\* applyLoadedData(data, sourceName): reading data.header of null throws
\* before anything is assigned
applyLoadedData(h, ts, b) ==
    IF b.isNull
    THEN [header |-> h, tasks |-> ts, outcome |-> "threw"]
    ELSE [header |-> MergeHeaderB(h, b.header),
          tasks  |-> IF b.tasksIsArray
                     THEN [i \in DOMAIN ts |-> MergeTaskAt(ts[i], i, b)]
                     ELSE ts,
          outcome |-> "ok"]

\* the files imported or downloaded in this variant
BlobsB ==
    { NoBlob,
      [isNull |-> FALSE, hasHeader |-> TRUE, header |-> FullHeader,
       tasksIsArray |-> FALSE, tasks |-> <<>>],
      [isNull |-> FALSE, hasHeader |-> TRUE, header |-> FullHeader,
       tasksIsArray |-> TRUE, tasks |-> <<FullEntry("1")>>],
      [isNull |-> FALSE, hasHeader |-> TRUE, header |-> FullHeader,
       tasksIsArray |-> TRUE, tasks |-> <<NullEntry, FullEntry("2")>>],
      \* the entries of both tasks, not in the template's order
      [isNull |-> FALSE, hasHeader |-> TRUE, header |-> FullHeader,
       tasksIsArray |-> TRUE, tasks |-> <<FullEntry("2"), FullEntry("1")>>] }

\* applyLoadedData as a step: b is applied, and on success the form is
\* rendered, progress recomputed and the state saved
ApplyLoaded(op, b) ==
    LET r == applyLoadedData(header, tasks, b)
    IN  /\ header' = r.header
        /\ tasks' = r.tasks
        /\ IF r.outcome = "ok"
           THEN /\ progress' = ComputeProgress(r.tasks)
                /\ storage' = Snapshot(r.header, r.tasks)
           ELSE UNCHANGED <<progress, storage>>
        /\ last' = [Handler(op, r.outcome,
                            IF r.outcome = "ok" THEN "success" ELSE "error")
                       EXCEPT !.blob = b,
                              !.reset = IF reloading > 0 THEN "overlap" ELSE "none"]

\* loadFromFile: reader.onload with a file JSON.parse accepts
LoadFromFileB(b) ==
    /\ ApplyLoaded("applyLoadedData", b)
    /\ UNCHANGED <<inflight, today, reloading, downloads, backend>>

\* loadFromGitHub(fileName) up to `await fetch(...)`
loadFromGitHub(b) ==
    /\ Cardinality(downloads) < MaxInFlight
    /\ b \notin downloads
    /\ downloads' = downloads \cup {b}
    /\ last' = Handler("loadFromGitHub", "awaiting", "warning")
    /\ UNCHANGED <<header, tasks, storage, progress, inflight, today, reloading, backend>>

\* the answer of /api/github/load arrives: the content is applied, or the
\* failure reported
GitHubLoaded(b, ok) ==
    /\ b \in downloads
    /\ downloads' = downloads \ {b}
    /\ IF ok
       THEN ApplyLoaded("gitHubLoaded", b)
       ELSE /\ last' = Handler("gitHubLoaded", "failed", "error")
            /\ UNCHANGED <<header, tasks, storage, progress>>
    /\ UNCHANGED <<inflight, today, reloading, backend>>

\* resetChecklist, confirmed, up to loadTasks(): the item is removed from
\* sessionStorage, the header reset, the fetch of checklist-data.json started
resetChecklistInPlace ==
    /\ reloading < MaxInFlight
    /\ storage' = NoSnapshot
    /\ header' = ResetHeader(header)
    /\ reloading' = reloading + 1
    /\ last' = [Handler("reset", "awaiting", "none") EXCEPT !.reset = "started"]
    /\ UNCHANGED <<tasks, progress, inflight, today, downloads, backend>>

\* loadTasks().then(...): the template replaces the task array (loadTasks
\* keeps the old array when the fetch failed), the form is rendered and the
\* reset reported; nothing is saved
ResetLoaded(loadOk) ==
    /\ reloading > 0
    /\ reloading' = reloading - 1
    /\ tasks' = IF loadOk THEN FreshTasks ELSE tasks
    /\ progress' = ComputeProgress(tasks')
    /\ last' = [Handler("resetLoaded", IF loadOk THEN "loaded" ELSE "fetchError",
                        "warning")
                   EXCEPT !.blob = IF last.reset = "overlap" THEN last.blob ELSE NoBlob,
                          !.reset = CASE ~loadOk -> "none"
                                      [] last.reset = "overlap" -> "overlapLoaded"
                                      [] last.reset = "started" -> "loaded"
                                      [] OTHER -> "none"]
    /\ UNCHANGED <<header, storage, inflight, today, downloads, backend>>

----------------------------------------------------------------------------
(* Saving to GitHub: saveToGitHub (src/app.js) and the endpoints            *)
(* /api/github/save and /api/github/load of the deployed server             *)

\* progressPercent: (tasks.filter(...).length / tasks.length) * 100, kept as
\* the fraction num/den; 0/0 is NaN
StatsPercent(completed, total) ==
    [isNaN |-> total = 0, num |-> 100 * completed, den |-> total]

\* progressData: the header, a copy of the tasks, and the stats
ProgressData(h, ts) ==
    [header |-> h, tasks |-> ts,
     stats |-> [totalTasks |-> Len(ts),
                completed |-> Count(ts, DOMAIN ts),
                progressPercent |-> StatsPercent(Count(ts, DOMAIN ts), Len(ts)),
                savedBy |-> OrElse(h["driverName"], "Unknown")]]

\* `progress/vehicle_${header.registration || 'NEW'}_${timestamp}.json`: the
\* directories of the path and the name of the file in the last of them
FileName(h, day) ==
    [dirs |-> <<"progress">>,
     name |-> [registration |-> OrElse(h["registration"], "NEW"), timestamp |-> day]]

\* /api/github/save: const fullPath = `progress/${baseFileName}`
FullPath(baseFileName) ==
    [dirs |-> <<"progress">> \o baseFileName.dirs, name |-> baseFileName.name]

\* PUT /contents/{path}: the file is created, or replaced when it exists
PutFile(files, path, content) ==
    {f \in files : ~(f.dirs = path.dirs /\ f.name = path.name)}
        \cup {[dirs |-> path.dirs, name |-> path.name, content |-> content]}

\* GET /contents/progress as showGitHubLoadModal lists it: the entries of
\* type 'file' of the directory itself (a subdirectory is an entry of type
\* 'dir' and is not listed)
ModalFiles(files) == {f.name : f \in {g \in files : g.dirs = <<"progress">>}}

\* saveToGitHub up to `await fetch(...)`: a disabled button takes no click
saveToGitHub ==
    /\ ~saveBtnDisabled
    /\ saveBtnDisabled' = TRUE
    /\ saves' = saves \cup {[fileName |-> FileName(header, Today),
                             content |-> ProgressData(header, tasks)]}
    /\ last' = Handler("saveToGitHub", "awaiting", "warning")
    /\ UNCHANGED <<header, tasks, storage, progress, inflight, today, reloading,
                   downloads, repo, server>>

\* the button re-enabled only after a save that succeeded
SaveSettled_noFinally(request, outcome) ==
    /\ request \in saves
    /\ saves' = saves \ {request}
    /\ repo' = IF outcome = "ok"
               THEN PutFile(repo, FullPath(request.fileName), request.content)
               ELSE repo
    /\ storage' = IF outcome = "ok" THEN Snapshot(header, tasks) ELSE storage
    /\ saveBtnDisabled' = IF outcome = "ok" THEN FALSE ELSE saveBtnDisabled
    /\ last' = Handler("gitHubSaved", outcome, IF outcome = "ok" THEN "success" ELSE "error")
    /\ UNCHANGED <<header, tasks, progress, inflight, today, reloading, downloads, server>>

\* the request settles: the server stored the file and answered 200
\* ("ok"), answered with an error status ("rejected"), or the fetch failed
\* ("networkError"); the rest of saveToGitHub runs, its finally block last
SaveSettled(request, outcome) ==
    /\ request \in saves
    /\ saves' = saves \ {request}
    /\ repo' = IF outcome = "ok"
               THEN PutFile(repo, FullPath(request.fileName), request.content)
               ELSE repo
    /\ storage' = IF outcome = "ok" THEN Snapshot(header, tasks) ELSE storage
    /\ saveBtnDisabled' = FALSE
    /\ last' = Handler("gitHubSaved", outcome, IF outcome = "ok" THEN "success" ELSE "error")
    /\ UNCHANGED <<header, tasks, progress, inflight, today, reloading, downloads, server>>

SaveOutcomes == {"ok", "rejected", "networkError"}

----------------------------------------------------------------------------
(* The local server (src/server.js) *)

\* a field of a JSON request body: absent, a string or an array, with its length
Undefined == [type |-> "undefined", len |-> 0]
Str(n) == [type |-> "string", len |-> n]
Arr(n) == [type |-> "array", len |-> n]

\* JS  !v : undefined and the empty string are falsy, every array is truthy
Falsy(v) == v.type = "undefined" \/ (v.type = "string" /\ v.len = 0)

\* the filename of a request body as its "/"-separated segments; <<>> is an
\* absent filename and <<"">> the empty string
NoFilename == <<>>
Segments == {"..", ".", "sub", "a.json", ""}
Filenames == UNION {[1..n -> Segments] : n \in 1..MaxSegments}
FalsyFilename(f) == f = NoFilename \/ f = <<"">>

\* the server before its first request, and the shape of its record: the
\* request handled last, what the handler called, and its response
IdleServer ==
    [route |-> "none",
     from |-> Undefined, to |-> Undefined, subject |-> Undefined, body |-> Undefined,
     filename |-> NoFilename, data |-> Undef,
     provider |-> "none", providerCalls |-> 0,
     mkdir |-> "none", written |-> {},
     status |-> 0, responses |-> 0]

\* --- POST /api/send-email ---

\* if (!from || !to || !subject || !body)
MissingFields(from, to, subject, body) ==
    Falsy(from) \/ Falsy(to) \/ Falsy(subject) \/ Falsy(body)

ProviderOutcomes == {"ok", "error", "throws"}

\* the whole handler: the validation, the call of resend.emails.send and the
\* one response of the path taken
PostSendEmail(from, to, subject, body, providerOutcome) ==
    /\ server' =
         IF MissingFields(from, to, subject, body)
         THEN [IdleServer EXCEPT !.route = "send-email",
                  !.from = from, !.to = to, !.subject = subject, !.body = body,
                  !.status = 400, !.responses = 1]
         ELSE [IdleServer EXCEPT !.route = "send-email",
                  !.from = from, !.to = to, !.subject = subject, !.body = body,
                  !.provider = providerOutcome, !.providerCalls = 1,
                  !.status = CASE providerOutcome = "ok" -> 200
                               [] providerOutcome = "error" -> 400
                               [] providerOutcome = "throws" -> 500,
                  !.responses = 1]
    /\ UNCHANGED <<header, tasks, storage, progress, inflight, today, reloading,
                   downloads, saveBtnDisabled, saves, repo, last>>

\* --- POST /api/save-progress ---

\* __dirname and path.join(__dirname, 'progress_files'), as absolute paths
ServerDir == <<"app">>
ProgressDir == ServerDir \o <<"progress_files">>

\* path.normalize on the segments of an absolute path: "" and "." are dropped,
\* ".." removes the segment before it and stays at the root
RECURSIVE NormalizeSegs(_, _)
NormalizeSegs(segs, acc) ==
    IF segs = <<>> THEN acc
    ELSE LET s == Head(segs)
         IN  NormalizeSegs(Tail(segs),
                 IF s \in {"", "."} THEN acc
                 ELSE IF s = ".."
                      THEN (IF acc = <<>> THEN acc ELSE SubSeq(acc, 1, Len(acc) - 1))
                      ELSE Append(acc, s))

\* path.join(dir, filename): a trailing separator survives the normalization
PathJoin(dir, filename) ==
    [segs |-> NormalizeSegs(dir \o filename, <<>>),
     trailingSlash |-> filename[Len(filename)] = ""]

\* path.dirname: the path without its last segment; the root is its own parent
Dirname(p) ==
    IF p.segs = <<>> THEN p.segs ELSE SubSeq(p.segs, 1, Len(p.segs) - 1)

\* a check that only asks the file to be somewhere below progress_files
ValidFilename_anywhereBelow(filePath) ==
    /\ Len(filePath.segs) > Len(ProgressDir)
    /\ SubSeq(filePath.segs, 1, Len(ProgressDir)) = ProgressDir

\* the negation of  path.dirname(filePath) !== progressDir
ValidFilename(filePath) == Dirname(filePath) = ProgressDir

\* the whole handler; mkdirOk and writeOk are whether fs.mkdir and
\* fs.writeFile succeed, and writing to a name that ends with a separator
\* always fails
PostSaveProgress(filename, data, mkdirOk, writeOk) ==
    LET request == [IdleServer EXCEPT !.route = "save-progress",
                       !.filename = filename, !.data = data, !.responses = 1]
        filePath == PathJoin(ProgressDir, filename)
    IN
    /\ server' =
         IF FalsyFilename(filename) \/ ~Truthy(data)
         THEN [request EXCEPT !.status = 400]
         ELSE IF ~mkdirOk
         THEN [request EXCEPT !.mkdir = "throws", !.status = 500]
         ELSE IF ~ValidFilename(filePath)
         THEN [request EXCEPT !.mkdir = "ok", !.status = 400]
         ELSE IF filePath.trailingSlash \/ ~writeOk
         THEN [request EXCEPT !.mkdir = "ok", !.status = 500]
         ELSE [request EXCEPT !.mkdir = "ok", !.status = 200,
                  !.written = {filePath.segs}]
    /\ UNCHANGED <<header, tasks, storage, progress, inflight, today, reloading,
                   downloads, saveBtnDisabled, saves, repo, last>>

----------------------------------------------------------------------------

Init ==
    /\ header = DefaultHeader
    /\ tasks = FreshTasks
    /\ storage = NoSnapshot
    /\ progress = ComputeProgress(FreshTasks)
    /\ inflight = 0
    /\ today = 1
    /\ reloading = 0
    /\ downloads = {}
    /\ saveBtnDisabled = FALSE
    /\ saves = {}
    /\ repo = {}
    /\ server = IdleServer
    /\ last = Handler("load", "loaded", "none")

Next ==
    \/ \E i \in DOMAIN Template, s \in {DefaultStatuses[k] : k \in DOMAIN DefaultStatuses} :
          StatusSelectChange(i, s)
    \/ \E i \in DOMAIN Template, d \in TypedDates : DateInputChange(i, d)
    \/ \E ok \in BOOLEAN : EmailSettled(ok)
    \/ \E e \in HeaderEdits : updateHeader(e[1], e[2])
    \/ \E i \in DOMAIN Template, v \in CustomOptions : CustomSelectChange(i, v)
    \/ \E b \in Blobs : LoadFromFile(b)
    \/ \E loadOk \in BOOLEAN : PageLoad(loadOk)
    \/ \E loadOk \in BOOLEAN : resetChecklist(loadOk)
    \/ Tick

Spec == Init /\ [][Next]_vars

\* the specification that exercises the header fields
NextHeader ==
    \/ \E e \in HeaderInputs : updateHeader(e[1], e[2])
    \/ \E b \in HeaderBlobs : LoadFromFile(b)
    \/ \E i \in DOMAIN Template, s \in {DefaultStatuses[k] : k \in DOMAIN DefaultStatuses} :
          StatusSelectChange(i, s)
    \/ \E ok \in BOOLEAN : EmailSettled(ok)

SpecHeader == Init /\ [][NextHeader]_vars

\* the variant that resets in place and loads from GitHub
InitB ==
    /\ header = DefaultHeaderB
    /\ tasks = FreshTasks
    /\ storage = NoSnapshot
    /\ progress = ComputeProgress(FreshTasks)
    /\ inflight = 0
    /\ today = 1
    /\ reloading = 0
    /\ downloads = {}
    /\ saveBtnDisabled = FALSE
    /\ saves = {}
    /\ repo = {}
    /\ server = IdleServer
    /\ last = Handler("load", "loaded", "none")

NextB ==
    \/ \E i \in DOMAIN Template, s \in {DefaultStatuses[k] : k \in DOMAIN DefaultStatuses} :
          StatusSelectChange(i, s)
    \/ \E ok \in BOOLEAN : EmailSettled(ok)
    \/ \E e \in HeaderEdits : updateHeader(e[1], e[2])
    \/ \E b \in BlobsB : LoadFromFileB(b)
    \/ \E b \in BlobsB : loadFromGitHub(b)
    \/ \E b \in BlobsB, ok \in BOOLEAN : GitHubLoaded(b, ok)
    \/ resetChecklistInPlace
    \/ \E loadOk \in BOOLEAN : ResetLoaded(loadOk)

SpecB == InitB /\ [][NextB]_vars

\* the page after initChecklist, the template fetched or not
InitG ==
    /\ header = DefaultHeaderB
    /\ tasks \in {FreshTasks, <<>>}
    /\ storage = NoSnapshot
    /\ progress = ComputeProgress(tasks)
    /\ inflight = 0
    /\ today = 1
    /\ reloading = 0
    /\ downloads = {}
    /\ saveBtnDisabled = FALSE
    /\ saves = {}
    /\ repo = {}
    /\ server = IdleServer
    /\ last = Handler("load", IF tasks = <<>> THEN "fetchError" ELSE "loaded", "none")

NextG ==
    \/ \E i \in DOMAIN Template : StatusSelectChange(i, "Actioned")
    \/ \E ok \in BOOLEAN : EmailSettled(ok)
    \/ \E e \in HeaderEdits : updateHeader(e[1], e[2])
    \/ saveToGitHub
    \/ \E request \in saves, outcome \in SaveOutcomes : SaveSettled(request, outcome)

\* the specification of saving to GitHub
SpecG == InitG /\ [][NextG]_vars

\* every request is answered or fails in the end
SpecGFair ==
    SpecG /\ WF_vars(\E request \in saves, outcome \in SaveOutcomes :
                        SaveSettled(request, outcome))

\* the requests the local server is sent
EmailFields == {Undefined, Str(0), Str(1)}
EmailTo == EmailFields \cup {Arr(0), Arr(1)}

NextServer ==
    \/ \E from \in EmailFields, to \in EmailTo, subject \in EmailFields,
          body \in EmailFields, providerOutcome \in ProviderOutcomes :
          PostSendEmail(from, to, subject, body, providerOutcome)
    \/ \E filename \in Filenames \cup {NoFilename}, data \in {Undef, "object"},
          mkdirOk \in BOOLEAN, writeOk \in BOOLEAN :
          PostSaveProgress(filename, data, mkdirOk, writeOk)

\* the specification of the local server
SpecServer == Init /\ [][NextServer]_vars

----------------------------------------------------------------------------
(* Properties *)

\* the step just taken is the handler named op (Tick leaves `last` alone)
IsUpdateTask(l) == l.op \in {"statusChange", "dateChange"}

\* the taskIds of the entries of a blob
BlobIds(b) == {b.tasks[j].taskId : j \in DOMAIN b.tasks}

TaskIds(ts) == [i \in DOMAIN ts |-> ts[i].taskId]

\* C1: after an import through applyState(blob), every task whose taskId does
\* not occur in the blob has status Pending and an empty dateActioned.
C1_AbsentTasksPending ==
    (last.op = "applyState" /\ last.outcome = "ok") =>
        \A i \in DOMAIN tasks :
            tasks[i].taskId \notin BlobIds(last.blob) =>
                tasks[i].status = "Pending" /\ tasks[i].dateActioned = ""

\* C2: in every reachable state the task list has the length, order and
\* taskId sequence of the loaded template (the empty list when
\* checklist-data.json could not be fetched): no blob task is added, no
\* template task dropped.
C2_TemplateShape == TaskIds(tasks) \in {TaskIds(Template), <<>>}

\* an import of a blob that names a task the template does not have has run
C2_Witness ==
    /\ last.op = "applyState" /\ last.outcome = "ok"
    /\ RemovedId \in BlobIds(last.blob)
    /\ TaskIds(tasks) = TaskIds(Template)

\* C3: applyState is idempotent: from every reachable state and for every
\* blob, applying the blob to the result of applying it leaves the header and
\* every task's status, dateActioned and customValue as the first
\* application left them.
C3_Idempotent ==
    \A b \in Blobs :
        LET once  == applyState(header, tasks, b)
            twice == applyState(once.header, once.tasks, b)
        IN  twice.header = once.header /\ twice.tasks = once.tasks

\* an import has just replaced the state of a task that was not Pending by
\* that of an entry without a date
C3_Witness ==
    /\ last.op = "applyState" /\ last.outcome = "ok"
    /\ \E i \in DOMAIN tasks :
          /\ HasSaved(last.blob, tasks[i].taskId)
          /\ SavedTask(last.blob, tasks[i].taskId).dateActioned = Undef
          /\ tasks[i].dateActioned = ""
    /\ applyState(header, tasks, last.blob).tasks = tasks

\* C4: whenever applyState reports an error, the header, the tasks and the
\* persisted snapshot are what they were before the call.
C4_ErrorLeavesState ==
    [][ (last'.op = "applyState" /\ today' = today /\ last'.shown = "error") =>
            (header' = header /\ tasks' = tasks /\ storage' = storage) ]_vars

C7_OneEmailAttempt ==
    [][ (IsUpdateTask(last') /\ today' = today) =>
            LET i == last'.index
                n == IF /\ tasks[i].status = "Pending"
                        /\ tasks'[i].status = "Actioned"
                        /\ Template[i].requiresEmail
                     THEN 1 ELSE 0
            IN  last'.attempts = n /\ inflight' = inflight + n ]_vars

\* updateTask has actioned a pending task that requires email
C7_Witness ==
    /\ last.op = "statusChange"
    /\ last.previousStatus = "Pending"
    /\ tasks[last.index].status = "Actioned"
    /\ Template[last.index].requiresEmail
    /\ last.attempts = 1 /\ inflight = 1

\* C8: when the email attempt fails, the tasks keep their state, the failure
\* is reported, and updateTask still writes the state to storage and
\* recomputes progress.
C8_FailedEmailStillSaves ==
    [][ (last'.op = "emailSettled" /\ last'.outcome = "failed" /\ today' = today) =>
            /\ tasks' = tasks
            /\ last'.shown = "error"
            /\ storage' = Snapshot(header', tasks')
            /\ progress' = ComputeProgress(tasks') ]_vars

\* the email of an actioned task has failed and the task is saved as actioned
C8_Witness ==
    /\ last.op = "emailSettled" /\ last.outcome = "failed"
    /\ \E i \in DOMAIN tasks :
          /\ Template[i].requiresEmail
          /\ tasks[i].status = "Actioned" /\ tasks[i].dateActioned = Today
          /\ storage.present /\ storage.tasks[i] = tasks[i]
    /\ progress.completed > 0

\* C9: while the email request of updateTask is in flight, the persisted
\* snapshot already holds the status of every task.
C9_SavedWhileInFlight ==
    inflight > 0 =>
        /\ storage.present
        /\ Len(storage.tasks) = Len(tasks)
        /\ \A i \in DOMAIN tasks : storage.tasks[i].status = tasks[i].status

\* C10: in every reachable state each task's status is one of the task's
\* availableStatuses.
C10_StatusPermitted ==
    \A i \in DOMAIN tasks : tasks[i].status \in AvailableStatuses(i)

\* C11: once a task's dateActioned is set, neither updateTask nor applyState
\* clears it (a task's dateActioned is empty exactly when the task is Pending
\* and has never left Pending).
C11_DateNeverCleared ==
    [][ (last'.op \in {"statusChange", "dateChange", "applyState"}
            /\ today' = today /\ Len(tasks') = Len(tasks)) =>
            \A i \in DOMAIN tasks :
                tasks[i].dateActioned # "" => tasks'[i].dateActioned # "" ]_vars

\* C12: persistence is write-through: whenever no handler is in progress, the
\* persisted snapshot's header and tasks equal the in-memory header and tasks,
\* or the snapshot is absent and the in-memory state is the freshly loaded
\* template (empty when the fetch failed) with the default header.
C12_WriteThrough ==
    inflight = 0 =>
        \/ storage = Snapshot(header, tasks)
        \/ /\ ~storage.present
           /\ header = DefaultHeader
           /\ tasks \in {FreshTasks, <<>>}

\* C13: progress survives a page reload: reloading the page with the same
\* template, no handler being in progress, restores the same header and, for
\* every task, the same status, dateActioned and customValue.
C13_ReloadIsIdentity ==
    [][ (last'.op = "load" /\ last'.outcome = "loaded" /\ today' = today
            /\ inflight = 0 /\ tasks # <<>>) =>
            (header' = header /\ tasks' = tasks) ]_vars

\* C16: if loading the task template fails during initialization, no restore
\* from storage and no persistence write takes place: a snapshot persisted by
\* an earlier session is left unchanged in storage.
C16_FailedLoadKeepsSnapshot ==
    [][ (last'.op = "load" /\ last'.outcome = "fetchError" /\ today' = today) =>
            storage' = storage ]_vars

\* C14: after a confirmed resetChecklist has completed, together with every
\* handler that was in flight when it started, every task is Pending with an
\* empty dateActioned, the header holds its default values, and storage holds
\* no state from before the reset.
C14_ResetDiscardsState ==
    (last.reset = "loaded" /\ inflight = 0 /\ reloading = 0 /\ downloads = {}) =>
        /\ \A i \in DOMAIN tasks :
              tasks[i].status = "Pending" /\ tasks[i].dateActioned = ""
        /\ header = DefaultHeaderB
        /\ storage.present =>
              /\ storage.header = DefaultHeaderB
              /\ \A i \in DOMAIN storage.tasks :
                    /\ storage.tasks[i].status = "Pending"
                    /\ storage.tasks[i].dateActioned = ""

\* C15: file import, remote restore and reset never interleave: when an
\* import or a download is applied while a reset is under way, the header and
\* the tasks left when both are done are those of the reset alone or those
\* of the import applied to the reset state, never the header of the one
\* with the tasks of the other.
C15_NoInterleaving ==
    (last.reset = "overlapLoaded" /\ reloading = 0 /\ downloads = {}) =>
        LET alone == applyLoadedData(ResetHeader(header), FreshTasks, last.blob)
        IN  \/ header = ResetHeader(header) /\ tasks = FreshTasks
            \/ header = alone.header /\ tasks = alone.tasks

\* the last handler ended with a call of updateProgress
ProgressShown ==
    \/ last.op \in {"emailSettled", "load", "reset", "resetLoaded"}
    \/ IsUpdateTask(last) /\ last.outcome = "done"
    \/ last.op \in {"applyState", "applyLoadedData", "gitHubLoaded"} /\ last.outcome = "ok"

\* p is c/t*100 to the nearest tenth, in tenths of a percent, 0 when t is 0
IsPercentOf(p, c, t) ==
    IF t = 0 THEN p = 0
    ELSE 2 * (p * t - 1000 * c) <= t /\ 2 * (1000 * c - p * t) < t

\* C17: updateProgress reports, for the whole task list and for each phase,
\* completed = the number of tasks (of the phase) whose status is not Pending
\* and total = the number of tasks (of the phase), with percent =
\* completed/total*100 to one decimal and 0 when total is 0; 3 of 10 gives
\* 30.0% and 1 of 4 gives 25.0%.
C17_ProgressCounts ==
    /\ ProgressShown =>
          LET phaseOf(i) == Template[i].phase
              done(S)    == Cardinality({i \in S : tasks[i].status # "Pending"})
              inPhase(p) == {i \in DOMAIN tasks : phaseOf(i) = p}
          IN  /\ progress.completed = done(DOMAIN tasks)
              /\ progress.total = Len(tasks)
              /\ IsPercentOf(progress.percent, progress.completed, progress.total)
              /\ DOMAIN progress.phases = {phaseOf(i) : i \in DOMAIN tasks}
              /\ \A p \in DOMAIN progress.phases :
                    /\ progress.phases[p].completed = done(inPhase(p))
                    /\ progress.phases[p].total = Cardinality(inPhase(p))
                    /\ IsPercentOf(progress.phases[p].percent,
                                   progress.phases[p].completed,
                                   progress.phases[p].total)
    /\ Percent(3, 10) = 300
    /\ Percent(1, 4) = 250
    /\ Percent(0, 0) = 0

\* updateProgress has counted a skipped task as completed: 1 of 2, 50.0%
C17_Witness ==
    /\ ProgressShown
    /\ \E i \in DOMAIN tasks : tasks[i].status = "Skipped"
    /\ progress.completed = 1 /\ progress.total = 2 /\ progress.percent = 500
    /\ \E p \in DOMAIN progress.phases : progress.phases[p].percent = 0

\* C18: after applyState(blob) the header contains only the recognized header
\* fields: blob header fields that are not recognized are not copied, and an
\* empty blob value does not replace the default.
C18_OnlyRecognizedFields ==
    (last.op = "applyState" /\ last.outcome = "ok") =>
        /\ \A k \in HeaderKeys \ RecognizedKeys : header[k] = Undef
        /\ \A k \in RecognizedKeys :
              last.blob.header[k] = "" => header[k] = DefaultHeader[k]

\* C19: in every reachable state header.registration is non-empty and
\* uppercase, including at startup, after a header edit and after importing
\* a blob whose registration is lowercase or empty.
C19_RegistrationUppercase ==
    /\ header["registration"] # ""
    /\ header["registration"] = ToUpperCase(header["registration"])

\* recipient lists a template may give a task: none, placeholders, fixed
\* addresses, a placeholder inside an address
RecipientLists ==
    { <<>>,
      << <<"{{driverEmail}}">> >>,
      << <<"fleet@example.com">>, <<"{{driverEmail}}">> >>,
      << <<"{{sellerEmail}}">>, <<"fleet@example.com">>, <<"{{driverEmail}}">> >>,
      << <<"cc+", "{{driverEmail}}">>, <<"{{sellerEmail}}">> >> }

\* the pieces of a pattern with each placeholder replaced by the header's
\* value, an empty value leaving nothing
Substituted(pattern, h) ==
    LET value(piece) == CASE piece = "{{driverEmail}}" -> h["driverEmail"]
                          [] piece = "{{sellerEmail}}" -> h["sellerEmail"]
                          [] OTHER -> piece
        kept == {j \in DOMAIN pattern : Truthy(value(pattern[j]))}
        nth(k) == CHOOSE j \in kept : Cardinality({n \in kept : n < j}) = k - 1
    IN  [k \in 1..Cardinality(kept) |-> value(pattern[nth(k)])]

\* to is the list of the substituted patterns that are not empty, in their
\* order, or the default recipient alone when there is none
IsRecipientList(to, patterns, h) ==
    LET resolved == [j \in DOMAIN patterns |-> Substituted(patterns[j], h)]
        kept     == {j \in DOMAIN resolved : resolved[j] # <<>>}
        nth(k)   == CHOOSE j \in kept : Cardinality({n \in kept : n < j}) = k - 1
    IN  /\ to # <<>>
        /\ IF kept = {}
           THEN to = << <<"d.paradinejr@gmail.com">> >>
           ELSE /\ Len(to) = Cardinality(kept)
                /\ \A k \in DOMAIN to : to[k] = resolved[nth(k)]

C24_TypedDateStored ==
    (last.op = "dateChange" /\ last.index \in DOMAIN tasks) =>
        /\ tasks[last.index].dateActioned = last.typed
        /\ inflight = 0 => storage.tasks[last.index].dateActioned = last.typed

\* C25: an import matches blob entries to tasks by taskId and not by
\* position: a task takes its status, dateActioned and customValue from the
\* blob entry that has its taskId, wherever that entry stands in the blob's
\* array, and a task whose taskId the blob does not have is left alone.
C25_MatchedByTaskId ==
    [][ (last'.op \in {"applyLoadedData", "gitHubLoaded"} /\ last'.outcome = "ok"
            /\ last'.blob.tasksIsArray /\ today' = today) =>
            \A i \in DOMAIN tasks :
                LET entries == {j \in DOMAIN last'.blob.tasks :
                                   last'.blob.tasks[j].taskId = tasks[i].taskId}
                IN  IF entries = {}
                    THEN tasks'[i] = tasks[i]
                    ELSE \E j \in entries :
                            LET e == last'.blob.tasks[j]
                            IN  /\ tasks'[i].status = e.status
                                /\ tasks'[i].dateActioned = e.dateActioned
                                /\ tasks'[i].customValue =
                                      OrElse(e.customValue, tasks[i].customValue) ]_vars

\* C26: updateTask on one task changes only that task's status and
\* dateActioned: every other task, the task's own customValue and taskId, and
\* the header are unchanged, also when updateTask resumes after the email;
\* updateHeader changes only the named header field and changes no task.
C26_Frame ==
    [][ today' = today =>
          /\ IsUpdateTask(last') =>
                /\ header' = header
                /\ DOMAIN tasks' = DOMAIN tasks
                /\ \A j \in DOMAIN tasks :
                      IF j = last'.index
                      THEN /\ tasks'[j].taskId = tasks[j].taskId
                           /\ tasks'[j].customValue = tasks[j].customValue
                      ELSE tasks'[j] = tasks[j]
          /\ last'.op = "emailSettled" => (header' = header /\ tasks' = tasks)
          /\ last'.op = "updateHeader" =>
                /\ tasks' = tasks
                /\ \A k \in HeaderKeys \ {last'.key} : header'[k] = header[k] ]_vars

\* the driver's email was edited while the registration was set and a task
\* was not Pending, and both are as they were
C26_Witness ==
    /\ last.op = "updateHeader" /\ last.key = "driverEmail"
    /\ header["registration"] = "AB1"
    /\ header["driverEmail"] = "driver@example.com"
    /\ \E i \in DOMAIN tasks : tasks[i].status = "Skipped"

\* C21: a progress file saved with saveToGitHub is stored directly in the
\* repository's progress/ directory, so that the next listing shown by
\* showGitHubLoadModal contains that file and loading it by that name finds
\* the saved header and task states.
C21_SavedFileListed ==
    \A f \in repo :
        /\ f.dirs = <<"progress">>
        /\ f.name \in ModalFiles(repo)
        /\ \E g \in repo : /\ FullPath([dirs |-> <<>>, name |-> f.name]).dirs = g.dirs
                           /\ g.name = f.name
                           /\ g.content = f.content

\* C27: the progress percentage recorded in the stats of a GitHub save is
\* completed/total*100, and 0 when the task list is empty: saveToGitHub never
\* divides by zero.
C27_StatsPercent ==
    \A request \in saves :
        LET stats == request.content.stats
            done  == Cardinality({i \in DOMAIN request.content.tasks :
                                     request.content.tasks[i].status # "Pending"})
            total == Len(request.content.tasks)
        IN  /\ ~stats.progressPercent.isNaN
            /\ stats.progressPercent.num * total
                   = 100 * done * stats.progressPercent.den


\* C30: while a GitHub save is in flight the save button is disabled, so at
\* most one save is in flight at a time, and after every attempt (success,
\* server rejection or network failure) the button is enabled again.
C30_SaveButton ==
    /\ [](Cardinality(saves) <= 1 /\ (saves # {} => saveBtnDisabled))
    /\ (saveBtnDisabled ~> ~saveBtnDisabled)

\* a failed save has been settled and the button is enabled again
C30_Witness ==
    /\ last.op = "gitHubSaved"
    /\ last.outcome \in {"rejected", "networkError"}
    /\ saves = {}
    /\ ~saveBtnDisabled


\* a request field that is missing or empty: absent, "" or []
MissingOrEmpty(v) == v.type = "undefined" \/ v.len = 0

\* C28: POST /api/send-email with any of from, to, subject or body missing or
\* empty responds 400 without calling the email provider; otherwise it calls
\* the provider exactly once and sends exactly one response: 200 on success,
\* 400 when the provider returns an error, 500 when the call throws.
C28_SendEmailValidated ==
    server.route = "send-email" =>
        IF \E v \in {server.from, server.to, server.subject, server.body} :
               MissingOrEmpty(v)
        THEN /\ server.status = 400
             /\ server.providerCalls = 0
        ELSE /\ server.providerCalls = 1
             /\ server.responses = 1
             /\ server.provider = "ok" => server.status = 200
             /\ server.provider = "error" => server.status = 400
             /\ server.provider = "throws" => server.status = 500

\* the place a posted filename resolves to is a file directly inside
\* progress_files
DirectlyInside(segs) ==
    /\ Len(segs) = Len(ProgressDir) + 1
    /\ \A k \in DOMAIN ProgressDir : segs[k] = ProgressDir[k]

\* C29 (as stated): POST /api/save-progress writes only to a file directly
\* inside progress_files, and a filename that resolves outside that directory
\* or into a subdirectory is answered with 400 and no file is written.
C29_OutsideRejected ==
    (server.route = "save-progress" /\ ~FalsyFilename(server.filename)) =>
        /\ \A segs \in server.written : DirectlyInside(segs)
        /\ ~DirectlyInside(NormalizeSegs(ProgressDir \o server.filename, <<>>)) =>
               /\ server.status = 400
               /\ server.written = {}

\* C29 (amended): POST /api/save-progress writes only to a file directly
\* inside progress_files; for a filename that resolves outside that directory
\* or into a subdirectory no file is written, and the answer is 400 unless
\* creating the directory failed, which is answered with 500.
C29_NoWriteOutside ==
    (server.route = "save-progress" /\ ~FalsyFilename(server.filename)) =>
        /\ \A segs \in server.written : DirectlyInside(segs)
        /\ ~DirectlyInside(NormalizeSegs(ProgressDir \o server.filename, <<>>)) =>
               /\ server.written = {}
               /\ server.status = IF server.mkdir = "throws" THEN 500 ELSE 400

\* a filename with ".." that leaves progress_files was refused after the
\* directory had been created
C29_Witness ==
    /\ server.route = "save-progress"
    /\ server.filename = <<"..", "a.json">>
    /\ server.data = "object"
    /\ server.mkdir = "ok"
    /\ server.status = 400
    /\ server.written = {}

====
